---- MODULE Spec2Model ----
(***************************************************************************)
(* Model of testSuite/scripts/run.py, the smoke-test harness of azcopy:    *)
(* configuration resolution (environment variables or                      *)
(* ../test_suite_config.ini), log cleanup, the call of                     *)
(* util.initialize_test_suite, the ten unittest groups run by main(), and  *)
(* the final log cleanup.                                                  *)
(*                                                                         *)
(* os.environ is a partial function from names to strings.  The config     *)
(* file is what config.read() meets when init() decides to parse it: it is *)
(* an input of that step, recorded in the variable file.  The bodies of    *)
(* util.initialize_test_suite and of the test classes are not part of      *)
(* run.py; their visible effects (a boolean result, pass/fail, log files   *)
(* written to the working directory) are taken from the specification.     *)
(***************************************************************************)
EXTENDS Integers, Sequences, FiniteSets, TLC

VARIABLES
    pc,             \* position of the single thread of control in main()/init()
    platform,       \* what platform.system() returns
    env,            \* os.environ
    file,           \* the config file config.read() met, NotOpened before that
    error,          \* the exception that ended the process, "none" otherwise
    test_dir_path,  \* init()'s local variable test_dir_path
    initialized,    \* result of util.initialize_test_suite: "none", "ok", "failed"
    logs,           \* the files matching *.log in the working directory
    removeFailed,   \* the files whose os.remove raised OSError in the last cleanup()
    g,              \* index of the next test-case group of main()
    anyFailed,      \* some test-case group run so far reported a failing test
    trace           \* the steps executed so far, in order

vars == <<pc, platform, env, file, error, test_dir_path, initialized, logs,
          removeFailed, g, anyFailed, trace>>

----------------------------------------------------------------------------
(* Bounds of the model *)

\* at most this many of the 12 variables are unset in a starting environment
\* (besides the environment in which none of them is set)
MaxMissing == 1
\* at most this many keys of the config file are lacking
MaxLacking == 1
\* number of distinct *.log file names that can exist in the working directory
MaxLogFiles == 1

----------------------------------------------------------------------------
(* The names run.py uses *)

\* keys read from config[os_type]
PlatformKeys == {"TEST_DIRECTORY_PATH", "AZCOPY_EXECUTABLE_PATH",
                 "TEST_SUITE_EXECUTABLE_LOCATION"}

\* keys read from config['CREDENTIALS']
CredentialKeys == {"CONTAINER_SAS_URL", "CONTAINER_OAUTH_URL",
                   "CONTAINER_OAUTH_VALIDATE_SAS_URL", "SHARE_SAS_URL",
                   "PREMIUM_CONTAINER_SAS_URL", "ACCOUNT_NAME", "ACCOUNT_KEY",
                   "FILESYSTEM_URL", "AZCOPY_OAUTH_TOKEN_INFO"}

ConfigKeys == PlatformKeys \cup CredentialKeys

\* the order in which parse_config_file_set_env assigns os.environ[...]
AssignOrder == <<"TEST_DIRECTORY_PATH", "AZCOPY_EXECUTABLE_PATH",
                 "TEST_SUITE_EXECUTABLE_LOCATION", "CONTAINER_SAS_URL",
                 "CONTAINER_OAUTH_URL", "CONTAINER_OAUTH_VALIDATE_SAS_URL",
                 "SHARE_SAS_URL", "PREMIUM_CONTAINER_SAS_URL", "ACCOUNT_NAME",
                 "ACCOUNT_KEY", "FILESYSTEM_URL", "AZCOPY_OAUTH_TOKEN_INFO">>

\* the order in which init() calls check_env_not_exist
CheckOrder == <<"TEST_DIRECTORY_PATH", "AZCOPY_EXECUTABLE_PATH",
                "TEST_SUITE_EXECUTABLE_LOCATION", "CONTAINER_SAS_URL",
                "CONTAINER_OAUTH_URL", "CONTAINER_OAUTH_VALIDATE_SAS_URL",
                "SHARE_SAS_URL", "PREMIUM_CONTAINER_SAS_URL", "FILESYSTEM_URL",
                "ACCOUNT_NAME", "ACCOUNT_KEY", "AZCOPY_OAUTH_TOKEN_INFO">>

\* the test-case classes main() runs, in the order of its statements
Groups == <<"Block_Upload_User_Scenarios", "Blob_Download_User_Scenario",
            "PageBlob_Upload_User_Scenarios", "BlobFs_Upload_OAuth_User_Scenarios",
            "BlobFs_Download_OAuth_User_Scenarios", "Azcopy_Operation_User_Scenario",
            "FileShare_Download_User_Scenario", "FileShare_Upload_User_Scenario",
            "BlobFs_Upload_ShareKey_User_Scenarios",
            "BlobFs_Download_SharedKey_User_Scenarios">>

\* the default of os.environ.get(key, '-1'), which doubles as "not set"
Sentinel == "-1"

\* the suffix init() appends to its local test_dir_path
TestDataSuffix == "\\test_data"

----------------------------------------------------------------------------
(* os.environ *)

\* an environment variable that is not one of the 12
OtherKeys == {"PATH"}

EnvKeys == ConfigKeys \cup OtherKeys

\* os.environ.get(key, default)
environ_get(e, key, default) == IF key \in DOMAIN e THEN e[key] ELSE default

\* mutant: a variable that is already set keeps its value
environ_setdefault(e, key, value) ==
    [x \in DOMAIN e \cup {key} |-> IF x \in DOMAIN e THEN e[x] ELSE value]

\* os.environ[key] = value
environ_set(e, key, value) ==
    [x \in DOMAIN e \cup {key} |-> IF x = key THEN value ELSE e[x]]

\* the value a variable holds when the caller exported it
EnvPreset(k) == "env:" \o k

MissingSets == {M \in SUBSET ConfigKeys : Cardinality(M) <= MaxMissing}
                  \cup {ConfigKeys}

\* the starting environments: the variables of M are absent, or hold '-1'
InitEnvs ==
    {[k \in EnvKeys \ M |-> EnvPreset(k)] : M \in MissingSets}
    \cup {[k \in EnvKeys |-> IF k \in M THEN Sentinel ELSE EnvPreset(k)] :
            M \in MissingSets}

----------------------------------------------------------------------------
(* ../test_suite_config.ini *)

\* str.upper() on the values platform.system() returns
upper(s) == CASE s = "Linux" -> "LINUX"
              [] s = "Windows" -> "WINDOWS"
              [] OTHER -> s

Platforms == {"Linux", "Windows"}

SectionNames == {"LINUX", "WINDOWS", "CREDENTIALS"}

SectionKeys(s) == IF s = "CREDENTIALS" THEN CredentialKeys ELSE PlatformKeys

\* the value the file gives key k in section s
FileValue(s, k) == "ini:" \o s \o ":" \o k

NoSections == [s \in {} |-> [k \in {} |-> ""]]

NotOpened == [status |-> "not_opened", sections |-> NoSections]

LackingSets == {L \in SUBSET ConfigKeys : 1 <= Cardinality(L) /\ Cardinality(L) <= MaxLacking}

\* the files config.read() can meet: none, one it cannot open, or a parsed
\* one with some of the sections, whose keys are complete, or lack the keys
\* of L, or hold '-1' for one key
Files ==
    {[status |-> st, sections |-> NoSections] : st \in {"missing", "unreadable"}}
    \cup {[status |-> "ok",
           sections |-> [s \in S |-> [k \in SectionKeys(s) |-> FileValue(s, k)]]] :
            S \in SUBSET SectionNames}
    \cup {[status |-> "ok",
           sections |-> [s \in SectionNames |->
                           [k \in SectionKeys(s) \ L |-> FileValue(s, k)]]] :
            L \in LackingSets}
    \cup {[status |-> "ok",
           sections |-> [s \in SectionNames |->
                           [k \in SectionKeys(s) |->
                              IF k = x THEN Sentinel ELSE FileValue(s, k)]]] :
            x \in ConfigKeys}

\* files_read = config.read('../test_suite_config.ini'): the files it could open
files_read(f) == IF f.status = "ok" THEN 1 ELSE 0

\* the section the code reads key k from
SectionOf(k, os_type) == IF k \in PlatformKeys THEN os_type ELSE "CREDENTIALS"

\* mutant: a key the file lacks is skipped instead of raising KeyError
RECURSIVE SetEnvSkipping(_, _, _, _)
SetEnvSkipping(e, sections, os_type, i) ==
    IF i > Len(AssignOrder) THEN [env |-> e, err |-> "none"]
    ELSE LET k == AssignOrder[i]
             s == SectionOf(k, os_type)
         IN  IF s \notin DOMAIN sections \/ k \notin DOMAIN sections[s]
             THEN SetEnvSkipping(e, sections, os_type, i + 1)
             ELSE SetEnvSkipping(environ_set(e, k, sections[s][k]), sections,
                                 os_type, i + 1)

\* the assignments os.environ[k] = config[section][k], from the i-th on;
\* config[section][k] raises KeyError when the section or the key is lacking
RECURSIVE SetEnvFrom(_, _, _, _)
SetEnvFrom(e, sections, os_type, i) ==
    IF i > Len(AssignOrder) THEN [env |-> e, err |-> "none"]
    ELSE LET k == AssignOrder[i]
             s == SectionOf(k, os_type)
         IN  IF s \notin DOMAIN sections \/ k \notin DOMAIN sections[s]
             THEN [env |-> e, err |-> "KeyError"]
             ELSE SetEnvFrom(environ_set(e, k, sections[s][k]), sections,
                             os_type, i + 1)

\* mutant: the environment is assigned before the platform section is looked up
parse_assign_first(e, f, plat) ==
    IF files_read(f) # 1 THEN [env |-> e, err |-> "failed_open"]
    ELSE LET os_type == upper(plat)
             r == SetEnvFrom(e, f.sections, os_type, Cardinality(PlatformKeys) + 1)
         IN  IF os_type \notin DOMAIN f.sections
             THEN [env |-> r.env, err |-> "platform_not_found"]
             ELSE SetEnvFrom(e, f.sections, os_type, 1)

parse_config_file_set_env(e, f, plat) ==
    IF files_read(f) # 1 THEN [env |-> e, err |-> "failed_open"]
    ELSE LET os_type == upper(plat)
         IN  IF os_type \notin DOMAIN f.sections
             THEN [env |-> e, err |-> "platform_not_found"]
             ELSE SetEnvFrom(e, f.sections, os_type, 1)

\* mutant: only an absent variable counts as not set
check_env_absent_only(e, key) == key \notin DOMAIN e

check_env_not_exist(e, key) == environ_get(e, key, Sentinel) = Sentinel

\* all 12 variables are in os.environ
AllPresent(e) == ConfigKeys \subseteq DOMAIN e

\* all 12 variables are in os.environ with a value other than '-1'
AllSet(e) == \A k \in ConfigKeys : k \in DOMAIN e /\ e[k] # Sentinel

\* the condition of init()'s if statement
NeedParse(e) == \E i \in 1..Len(CheckOrder) : check_env_not_exist(e, CheckOrder[i])

\* configuration resolution of init(): the result on environment e when the
\* config file, if it comes to be read, is f
resolve(e, f, plat) ==
    IF NeedParse(e)
    THEN LET r == parse_config_file_set_env(e, f, plat)
         IN  [env |-> r.env, err |-> r.err, file |-> f]
    ELSE [env |-> e, err |-> "none", file |-> NotOpened]

----------------------------------------------------------------------------
(* cleanup() *)

LogFiles == {"azcopy" \o ToString(i) \o ".log" : i \in 1..MaxLogFiles}

\* mutant: nothing is removed
cleanup_keeps(ls, failing) == ls

\* the *.log files left by cleanup() when os.remove raises OSError for the
\* files of failing
cleanup(ls, failing) == ls \ {f \in ls : f \notin failing}

----------------------------------------------------------------------------
(* Collaborators, as the specification describes them *)

\* util.initialize_test_suite(...): a boolean, and log files it may write
initialize_test_suite == [ok : BOOLEAN, created : SUBSET LogFiles]

\* unittest.TextTestRunner(verbosity=2).run(suite): failures are reported in
\* the result, not raised; the tests may write log files
TextTestRunner_run == [failed : BOOLEAN, created : SUBSET LogFiles]

----------------------------------------------------------------------------
(* Control flow of main() and init() *)

\* mutant: an exception of parse_config_file_set_env is swallowed
AfterResolveSwallow(err) == "cleanup"

\* mutant: init() goes on to the initializer without calling cleanup()
AfterResolveNoCleanup(err) == IF err = "none" THEN "initialize" ELSE "aborted"

\* after the if statement of init(): an exception leaves init() and main()
AfterResolve(err) == IF err = "none" THEN "cleanup" ELSE "aborted"

\* mutant: the success branch exports the extended path
init_branch_export(ok, e, path) ==
    IF ~ok THEN [env |-> e, test_dir_path |-> path]
    ELSE [env |-> environ_set(e, "TEST_DIRECTORY_PATH", path \o TestDataSuffix),
          test_dir_path |-> path \o TestDataSuffix]

\* the if/else of init() on the result of util.initialize_test_suite
init_branch(ok, e, path) ==
    IF ~ok THEN [env |-> e, test_dir_path |-> path]
    ELSE [env |-> e, test_dir_path |-> path \o TestDataSuffix]

\* mutant: a failing group ends the test phase
AfterGroupStopOnFailure(i, failed) ==
    IF failed \/ i = Len(Groups) THEN "final_cleanup" ELSE "group"

\* the statement of main() after the i-th group
AfterGroup(i, failed) == IF i < Len(Groups) THEN "group" ELSE "final_cleanup"

----------------------------------------------------------------------------
(* The state machine *)

Init ==
    /\ pc = "start"
    /\ platform \in Platforms
    /\ env \in InitEnvs
    /\ file = NotOpened
    /\ error = "none"
    /\ test_dir_path = ""
    /\ initialized = "none"
    /\ logs \in SUBSET LogFiles
    /\ removeFailed = {}
    /\ g = 1
    /\ anyFailed = FALSE
    /\ trace = <<>>

\* main() prints its banner and calls init(); init() checks the 12 variables,
\* parses the config file if one is not set, and reads its locals
Resolve ==
    /\ pc = "start"
    /\ \E f \in Files :
         LET r == resolve(env, f, platform)
         IN  /\ env' = r.env
             /\ file' = r.file
             /\ error' = r.err
             /\ pc' = AfterResolve(r.err)
             /\ test_dir_path' = IF r.err = "none"
                                 THEN environ_get(r.env, "TEST_DIRECTORY_PATH", "")
                                 ELSE test_dir_path
    /\ trace' = Append(trace, "resolve")
    /\ UNCHANGED <<platform, initialized, logs, removeFailed, g, anyFailed>>

\* init() calls cleanup()
InitCleanup ==
    /\ pc = "cleanup"
    /\ \E failing \in SUBSET logs :
         /\ logs' = cleanup(logs, failing)
         /\ removeFailed' = failing
    /\ pc' = "initialize"
    /\ trace' = Append(trace, "cleanup")
    /\ UNCHANGED <<platform, env, file, error, test_dir_path, initialized, g, anyFailed>>

\* init() calls util.initialize_test_suite and returns to main()
Initialize ==
    /\ pc = "initialize"
    /\ \E res \in initialize_test_suite :
         LET b == init_branch(res.ok, env, test_dir_path)
         IN  /\ initialized' = IF res.ok THEN "ok" ELSE "failed"
             /\ logs' = logs \cup res.created
             /\ env' = b.env
             /\ test_dir_path' = b.test_dir_path
    /\ pc' = "group"
    /\ trace' = Append(trace, "initialize")
    /\ UNCHANGED <<platform, file, error, removeFailed, g, anyFailed>>

\* main() loads and runs its g-th test-case class
RunGroup ==
    /\ pc = "group"
    /\ \E res \in TextTestRunner_run :
         /\ logs' = logs \cup res.created
         /\ anyFailed' = (anyFailed \/ res.failed)
         /\ pc' = AfterGroup(g, res.failed)
    /\ g' = g + 1
    /\ trace' = Append(trace, Groups[g])
    /\ UNCHANGED <<platform, env, file, error, test_dir_path, initialized, removeFailed>>

\* main() calls cleanup() and returns
FinalCleanup ==
    /\ pc = "final_cleanup"
    /\ \E failing \in SUBSET logs :
         /\ logs' = cleanup(logs, failing)
         /\ removeFailed' = failing
    /\ pc' = "done"
    /\ trace' = Append(trace, "cleanup")
    /\ UNCHANGED <<platform, env, file, error, test_dir_path, initialized, g, anyFailed>>

Next == Resolve \/ InitCleanup \/ Initialize \/ RunGroup \/ FinalCleanup

Spec == Init /\ [][Next]_vars

\* runs of the test phase: the environment is complete or empty at entry
RunInit == Init /\ (AllSet(env) \/ ~(\E k \in ConfigKeys : k \in DOMAIN env))

\* the single thread runs on as long as it has a statement to execute; the
\* collaborators are taken to return
FairSpec == RunInit /\ [][Next]_vars /\ WF_vars(Next)

----------------------------------------------------------------------------
(* Derived views of the state *)

IsGroup(x) == \E i \in 1..Len(Groups) : Groups[i] = x

\* the test-case groups run so far, in order
ran == SelectSeq(trace, IsGroup)

IsCleanup(x) == x = "cleanup"

\* the number of cleanup() calls so far
CleanupCount == Len(SelectSeq(trace, IsCleanup))

IsPrefix(s, t) == Len(s) <= Len(t) /\ \A i \in 1..Len(s) : s[i] = t[i]

\* the file has the platform's section with its 3 keys and CREDENTIALS with its 9
Complete(f, plat) ==
    /\ f.status = "ok"
    /\ {upper(plat), "CREDENTIALS"} \subseteq DOMAIN f.sections
    /\ PlatformKeys \subseteq DOMAIN f.sections[upper(plat)]
    /\ CredentialKeys \subseteq DOMAIN f.sections["CREDENTIALS"]

InTestPhase == pc \in {"group", "final_cleanup", "done"}

\* the steps of a run whose configuration resolution succeeds
ExpectedTrace == <<"resolve", "cleanup", "initialize">> \o Groups \o <<"cleanup">>

----------------------------------------------------------------------------
(* The claims *)

\* C1: if util.initialize_test_suite returns false, no test-case group is
\* executed afterwards.
C1_NoGroupAfterFailedInitializer == initialized = "failed" => ran = <<>>

\* C2: whenever a test-case group is running or has run, all 12 configuration
\* variables are in the environment; if resolution could not put them all
\* there, the process has aborted with an error and no group has started.
C2_AllResolvedBeforeGroups ==
    /\ (InTestPhase \/ ran # <<>>) => AllPresent(env)
    /\ (pc # "start" /\ ~AllPresent(env)) =>
           (pc = "aborted" /\ error # "none" /\ ran = <<>>)
    /\ pc = "aborted" => (error # "none" /\ ran = <<>> /\ initialized = "none")

C2_Witness == Len(ran) = Len(Groups) /\ file.status = "ok" /\ AllPresent(env)

\* C3: parsing a readable config file with no section for the uppercased
\* platform raises the platform-not-found error and leaves os.environ as it was.
C3_PlatformMissingLeavesEnv ==
    [][(pc = "start" /\ file'.status = "ok"
          /\ upper(platform) \notin DOMAIN file'.sections)
       => (error' = "platform_not_found" /\ pc' = "aborted" /\ env' = env)]_vars

C3_Witness ==
    /\ error = "platform_not_found"
    /\ "CREDENTIALS" \in DOMAIN file.sections
    /\ ~AllPresent(env)

\* C4: with all 12 variables set to something other than '-1', resolution does
\* not open the config file and changes no variable, and resolving again in
\* such a state does nothing; a variable that is absent or holds '-1' makes
\* resolution read the file.
C4_AllSetSkipsFile ==
    /\ [][pc = "start" =>
            IF AllSet(env)
            THEN file' = NotOpened /\ env' = env /\ error' = "none"
            ELSE file' # NotOpened]_vars
    /\ [](AllSet(env) =>
            \A f \in Files :
                resolve(env, f, platform) =
                    [env |-> env, err |-> "none", file |-> NotOpened])

C4_Witness == pc = "initialize" /\ file = NotOpened /\ AllSet(env)

\* C5: when a variable is missing and the file is complete, resolution leaves
\* each of the 12 variables equal to the file's value of the same key (3 from
\* the platform section, 9 from CREDENTIALS), also those set before, and
\* changes no other variable.
C5_EnvEqualsFile ==
    [][(pc = "start" /\ ~AllSet(env) /\ Complete(file', platform))
       => /\ error' = "none"
          /\ DOMAIN env' = DOMAIN env \cup ConfigKeys
          /\ \A k \in ConfigKeys :
                env'[k] = file'.sections[SectionOf(k, upper(platform))][k]
          /\ \A k \in DOMAIN env \ ConfigKeys : env'[k] = env[k]]_vars

C5_Witness ==
    /\ pc = "cleanup"
    /\ Complete(file, platform)
    /\ \A k \in ConfigKeys : env[k] = FileValue(SectionOf(k, upper(platform)), k)
    /\ env["PATH"] = EnvPreset("PATH")

\* C6 as stated: after a full run no *.log file remains.
C6_NoLogsAfterFullRun == pc = "done" => logs = {}

\* C6 as amended: after a full run the *.log files that remain are exactly
\* those whose removal raised OSError in the final cleanup.
C6_OnlyFailedRemovalsRemain == pc = "done" => logs = removeFailed

C6_Witness == pc = "done" /\ anyFailed /\ logs # {}

\* C7: a missing or unreadable config file raises the failed-to-open error;
\* that error and the platform-not-found error end the process before the
\* initializer is called and before any test-case group runs.
C7_FatalBeforeAnyTest ==
    /\ [][(pc = "start" /\ file'.status \in {"missing", "unreadable"})
          => (error' = "failed_open" /\ pc' = "aborted")]_vars
    /\ [](error \in {"failed_open", "platform_not_found"} =>
            (pc = "aborted" /\ initialized = "none" /\ ran = <<>>
               /\ trace = <<"resolve">>))

C7_Witness == error = "failed_open" /\ pc = "aborted" /\ file.status = "unreadable"

\* C8: the ten groups run one at a time in the declared order, each once,
\* whatever passes or fails, and once the test phase has started all ten are
\* eventually run and the final cleanup is reached.
C8_AllGroupsInOrder ==
    /\ [](IsPrefix(ran, Groups))
    /\ [](pc \in {"final_cleanup", "done"} => ran = Groups)
    /\ [][pc = "group" => ran' = Append(ran, Groups[Len(ran) + 1])]_vars
    /\ (pc = "group") ~> (pc = "done" /\ ran = Groups /\ CleanupCount = 2)

C8_Witness == pc = "done" /\ anyFailed /\ ran = Groups

\* C9: when resolution succeeds the steps are resolution, cleanup, the
\* initializer, the groups, cleanup: cleanup runs exactly twice, first before
\* the initializer and last after the last group.
C9_StepOrder ==
    /\ IsPrefix(trace, ExpectedTrace)
    /\ CleanupCount <= 2
    /\ (initialized # "none" \/ ran # <<>>) => CleanupCount >= 1
    /\ CleanupCount = 2 => (pc = "done" /\ ran = Groups)
    /\ pc = "done" => trace = ExpectedTrace

C9_Witness == pc = "done" /\ CleanupCount = 2 /\ initialized = "ok"

\* C10: after configuration resolution no step changes os.environ; the
\* test_data suffix goes to init()'s local path only, so TEST_DIRECTORY_PATH
\* holds the resolved value while the groups run.
C10_EnvReadOnlyAfterResolution ==
    /\ [][pc # "start" => env' = env]_vars
    /\ []((InTestPhase /\ initialized = "ok") =>
            /\ test_dir_path = env["TEST_DIRECTORY_PATH"] \o TestDataSuffix
            /\ env["TEST_DIRECTORY_PATH"] # test_dir_path)

C10_Witness == pc = "group" /\ g > 1 /\ initialized = "ok"

====
